---- MODULE Spec2Model ----
(***************************************************************************)
(* State-machine model of the Rubik's cube game of                         *)
(* src/src/components/RubiksCube.tsx: the cubie store (React state of      *)
(* Game), the move queue, the animation scheduler of Scene (useFrame),     *)
(* the commit step finishMove, reset, scramble and the drag gesture        *)
(* handlers.                                                               *)
(*                                                                         *)
(* Numbers.  Coordinates are JavaScript numbers with at most two decimals; *)
(* they are modelled as integers counting thousandths (1.05 is 1050), so   *)
(* that the rounding of finishMove is a real computation.  JavaScript      *)
(* compares -0 and 0 as equal, so a coordinate 0 stands for both.          *)
(* Animation progress is a fixed-point number with ProgressUnit standing   *)
(* for 1.0, the eased angle is a fraction with denominator EaseDen of a    *)
(* quarter turn.                                                           *)
(*                                                                         *)
(* React.  A state update of cubeState re-renders Scene before the next    *)
(* frame or pointer event is handled, so the cubeState a handler closes    *)
(* over is the store as of the render in which the handler was created.    *)
(***************************************************************************)
EXTENDS Integers, Sequences, FiniteSets, TLC

(***************************************************************************)
(* Program constants                                                       *)
(***************************************************************************)
\* grid spacing 1.05, in thousandths
Spacing == 1050
\* layer tolerance 0.1, in thousandths
Tolerance == 100
\* animation speed
Speed == 4
\* number of moves one scramble appends
ScrambleCount == 20
\* drag threshold 0.05 (NDC), in thousandths
DragThreshold == 50
\* face classification threshold 0.8, in thousandths
FaceThreshold == 800

(***************************************************************************)
(* Bounds of the model                                                     *)
(***************************************************************************)
\* fixed-point value of animation progress 1.0
ProgressUnit == 8
\* largest frame delta, in 1/ProgressUnit time units
MaxDelta == 2
\* moves the buttons and gestures may enqueue before the first reset
MaxEnqueued == 2
\* number of resets
MaxResets == 1
\* number of past stores remembered by the history variable pastStores
HistoryWindow == 4
\* length of the unconstrained part of a move script
MaxFree == 2

(***************************************************************************)
(* Values                                                                  *)
(***************************************************************************)
Null == "null"
Axes == {"x", "y", "z"}
Layers == {-1, 0, 1}
Dirs == {1, -1}
Moves == [axis : Axes, layer : Layers, dir : Dirs]
NullMove == [axis |-> "none", layer |-> 0, dir |-> 0]
CubieIds == 0 .. 26
Slots == 1 .. 6

Abs(v) == IF v < 0 THEN -v ELSE v
Sign(v) == IF v > 0 THEN 1 ELSE IF v < 0 THEN -1 ELSE 0

\* index of the coordinate an axis names (the tuples are 1-based)
AxisIndex(axis) == IF axis = "x" THEN 1 ELSE IF axis = "y" THEN 2 ELSE 3

\* faulty variant of Round2 that keeps one decimal: 1.05 becomes 1.1
Round1(v) == ((2 * v + 100) \div 200) * 100

\* Math.round(v * 100) / 100 on thousandths: Math.round is floor(. + 0.5)
Round2(v) == ((2 * v + 10) \div 20) * 10

\* Math.round(v / 1.05) on thousandths
RoundToLayer(v) == (2 * v + Spacing) \div (2 * Spacing)

(***************************************************************************)
(* The solved configuration                                                *)
(***************************************************************************)
GridX(i) == (i \div 9) - 1
GridY(i) == ((i \div 3) % 3) - 1
GridZ(i) == (i % 3) - 1

\* faulty variant of the colour assignment that also stickers the +X slot of
\* the middle slice
SolvedColorsInner(x, y, z) ==
    << IF x >= 0 THEN "0" ELSE Null,
       IF x = -1 THEN "1" ELSE Null,
       IF y = 1 THEN "2" ELSE Null,
       IF y = -1 THEN "3" ELSE Null,
       IF z = 1 THEN "4" ELSE Null,
       IF z = -1 THEN "5" ELSE Null >>

SolvedColors(x, y, z) ==
    << IF x = 1 THEN "0" ELSE Null,
       IF x = -1 THEN "1" ELSE Null,
       IF y = 1 THEN "2" ELSE Null,
       IF y = -1 THEN "3" ELSE Null,
       IF z = 1 THEN "4" ELSE Null,
       IF z = -1 THEN "5" ELSE Null >>

InitialState ==
    [i \in CubieIds |->
        [position |-> << GridX(i) * Spacing, GridY(i) * Spacing, GridZ(i) * Spacing >>,
         colors   |-> SolvedColors(GridX(i), GridY(i), GridZ(i))]]

\* the store reset builds, by the same loops
ResetState ==
    [i \in CubieIds |->
        [position |-> << GridX(i) * Spacing, GridY(i) * Spacing, GridZ(i) * Spacing >>,
         colors   |-> SolvedColors(GridX(i), GridY(i), GridZ(i))]]

(***************************************************************************)
(* finishMove: the commit step                                             *)
(***************************************************************************)
\* faulty variant of InLayer whose tolerance spans the neighbouring layer
InLayerLoose(pos, axis, layer) ==
    Abs(pos[AxisIndex(axis)] - layer * Spacing) < Spacing + Tolerance

InLayer(pos, axis, layer) ==
    Abs(pos[AxisIndex(axis)] - layer * Spacing) < Tolerance

\* faulty variant of RotatePosition with the two directions exchanged
RotatePositionClockwise(pos, axis, dir) ==
    LET x == pos[1]
        y == pos[2]
        z == pos[3]
    IN  IF axis = "x"
        THEN (IF dir = 1 THEN << x, z, -y >> ELSE << x, -z, y >>)
        ELSE IF axis = "y"
        THEN (IF dir = 1 THEN << -z, y, x >> ELSE << z, y, -x >>)
        ELSE (IF dir = 1 THEN << y, -x, z >> ELSE << -y, x, z >>)

\* faulty variant of RotatePosition that turns about y the same way for both
\* directions
RotatePositionOneWay(pos, axis, dir) ==
    LET x == pos[1]
        y == pos[2]
        z == pos[3]
    IN  IF axis = "x"
        THEN (IF dir = 1 THEN << x, -z, y >> ELSE << x, z, -y >>)
        ELSE IF axis = "y"
        THEN << z, y, -x >>
        ELSE (IF dir = 1 THEN << -y, x, z >> ELSE << y, -x, z >>)

RotatePosition(pos, axis, dir) ==
    LET x == pos[1]
        y == pos[2]
        z == pos[3]
    IN  IF axis = "x"
        THEN (IF dir = 1 THEN << x, -z, y >> ELSE << x, z, -y >>)
        ELSE IF axis = "y"
        THEN (IF dir = 1 THEN << z, y, -x >> ELSE << -z, y, x >>)
        ELSE (IF dir = 1 THEN << -y, x, z >> ELSE << y, -x, z >>)

\* faulty variants of RotateColors: one copies a slot twice on (z, +1), one
\* cycles three slots instead of four on the x axis, one exchanges the two
\* directions on the x axis, one on the y axis, one permutes the slots the same way for both
\* directions on the z axis
RotateColorsSmearing(c, axis, dir) ==
    IF axis = "x"
    THEN (IF dir = 1 THEN << c[1], c[2], c[6], c[5], c[3], c[4] >>
                     ELSE << c[1], c[2], c[5], c[6], c[4], c[3] >>)
    ELSE IF axis = "y"
    THEN (IF dir = 1 THEN << c[5], c[6], c[3], c[4], c[2], c[1] >>
                     ELSE << c[6], c[5], c[3], c[4], c[1], c[2] >>)
    ELSE (IF dir = 1 THEN << c[4], c[3], c[1], c[1], c[5], c[6] >>
                     ELSE << c[3], c[4], c[2], c[1], c[5], c[6] >>)

RotateColorsThreeCycle(c, axis, dir) ==
    IF axis = "x"
    THEN (IF dir = 1 THEN << c[1], c[2], c[5], c[3], c[4], c[6] >>
                     ELSE << c[1], c[2], c[4], c[5], c[3], c[6] >>)
    ELSE IF axis = "y"
    THEN (IF dir = 1 THEN << c[5], c[6], c[3], c[4], c[2], c[1] >>
                     ELSE << c[6], c[5], c[3], c[4], c[1], c[2] >>)
    ELSE (IF dir = 1 THEN << c[4], c[3], c[1], c[2], c[5], c[6] >>
                     ELSE << c[3], c[4], c[2], c[1], c[5], c[6] >>)

RotateColorsXSwapped(c, axis, dir) ==
    IF axis = "x"
    THEN (IF dir = 1 THEN << c[1], c[2], c[5], c[6], c[4], c[3] >>
                     ELSE << c[1], c[2], c[6], c[5], c[3], c[4] >>)
    ELSE IF axis = "y"
    THEN (IF dir = 1 THEN << c[5], c[6], c[3], c[4], c[2], c[1] >>
                     ELSE << c[6], c[5], c[3], c[4], c[1], c[2] >>)
    ELSE (IF dir = 1 THEN << c[4], c[3], c[1], c[2], c[5], c[6] >>
                     ELSE << c[3], c[4], c[2], c[1], c[5], c[6] >>)

RotateColorsYSwapped(c, axis, dir) ==
    IF axis = "x"
    THEN (IF dir = 1 THEN << c[1], c[2], c[6], c[5], c[3], c[4] >>
                     ELSE << c[1], c[2], c[5], c[6], c[4], c[3] >>)
    ELSE IF axis = "y"
    THEN (IF dir = 1 THEN << c[6], c[5], c[3], c[4], c[1], c[2] >>
                     ELSE << c[5], c[6], c[3], c[4], c[2], c[1] >>)
    ELSE (IF dir = 1 THEN << c[4], c[3], c[1], c[2], c[5], c[6] >>
                     ELSE << c[3], c[4], c[2], c[1], c[5], c[6] >>)

RotateColorsZOneWay(c, axis, dir) ==
    IF axis = "x"
    THEN (IF dir = 1 THEN << c[1], c[2], c[6], c[5], c[3], c[4] >>
                     ELSE << c[1], c[2], c[5], c[6], c[4], c[3] >>)
    ELSE IF axis = "y"
    THEN (IF dir = 1 THEN << c[5], c[6], c[3], c[4], c[2], c[1] >>
                     ELSE << c[6], c[5], c[3], c[4], c[1], c[2] >>)
    ELSE << c[4], c[3], c[1], c[2], c[5], c[6] >>

RotateColors(c, axis, dir) ==
    IF axis = "x"
    THEN (IF dir = 1 THEN << c[1], c[2], c[6], c[5], c[3], c[4] >>
                     ELSE << c[1], c[2], c[5], c[6], c[4], c[3] >>)
    ELSE IF axis = "y"
    THEN (IF dir = 1 THEN << c[5], c[6], c[3], c[4], c[2], c[1] >>
                     ELSE << c[6], c[5], c[3], c[4], c[1], c[2] >>)
    ELSE (IF dir = 1 THEN << c[4], c[3], c[1], c[2], c[5], c[6] >>
                     ELSE << c[3], c[4], c[2], c[1], c[5], c[6] >>)

RoundPosition(pos) == << Round2(pos[1]), Round2(pos[2]), Round2(pos[3]) >>

IndicesToRotate(prev, move) ==
    {i \in CubieIds : InLayer(prev[i].position, move.axis, move.layer)}

FinishMove(prev, move) ==
    LET indicesToRotate == IndicesToRotate(prev, move)
    IN  [i \in CubieIds |->
            IF i \in indicesToRotate
            THEN [position |-> RoundPosition(RotatePosition(prev[i].position, move.axis, move.dir)),
                  colors   |-> RotateColors(prev[i].colors, move.axis, move.dir)]
            ELSE prev[i]]

(***************************************************************************)
(* Easing of the animation                                                 *)
(***************************************************************************)
EaseDen == 2 * ProgressUnit * ProgressUnit * ProgressUnit

\* numerator over EaseDen of  t < 0.5 ? 4 t^3 : 1 - (-2 t + 2)^3 / 2
EasedT(t) ==
    IF 2 * t < ProgressUnit
    THEN 8 * t * t * t
    ELSE EaseDen - 8 * (ProgressUnit - t) * (ProgressUnit - t) * (ProgressUnit - t)

(***************************************************************************)
(* Gesture resolution                                                      *)
(***************************************************************************)
CheckAxes(dot1, axis1Name, dot2, axis2Name) ==
    IF Abs(dot1) > Abs(dot2)
    THEN [axis |-> axis1Name, dot |-> dot1]
    ELSE [axis |-> axis2Name, dot |-> dot2]

\* the face branch handleGlobalMove takes for a contact normal
ClassifyFace(normal) ==
    IF Abs(normal[1]) > FaceThreshold THEN "x"
    ELSE IF Abs(normal[2]) > FaceThreshold THEN "y"
    ELSE "z"

\* Right/Left face: tangents y and z
ResolveXFace(normal, startPoint, cube, dot1, dot2) ==
    LET result == CheckAxes(dot1, "y", dot2, "z")
        dragDir == Sign(result.dot)
    IN  IF result.axis = "y"
        THEN LET zSign == IF Sign(startPoint[3]) = 0 THEN 1 ELSE Sign(startPoint[3])
             IN  [axis  |-> "x",
                  layer |-> RoundToLayer(cube.position[1]),
                  dir   |-> (IF dragDir = 1 THEN -1 ELSE 1) * zSign]
        ELSE [axis  |-> "y",
              layer |-> RoundToLayer(cube.position[2]),
              dir   |-> (IF dragDir = 1 THEN -1 ELSE 1) * Sign(normal[1])]

\* faulty variant of ResolveYFace that turns about the face normal on a drag
\* along x
ResolveYFaceAboutNormal(normal, startPoint, cube, dot1, dot2) ==
    LET result == CheckAxes(dot1, "x", dot2, "z")
        dragDir == Sign(result.dot)
    IN  IF result.axis = "x"
        THEN [axis  |-> "y",
              layer |-> RoundToLayer(cube.position[2]),
              dir   |-> (IF dragDir = 1 THEN -1 ELSE 1) * Sign(normal[2])]
        ELSE [axis  |-> "x",
              layer |-> RoundToLayer(cube.position[1]),
              dir   |-> (IF dragDir = 1 THEN 1 ELSE -1) * Sign(normal[2])]

\* faulty variant of ResolveYFace with the sense of a drag along x reversed
ResolveYFaceReversed(normal, startPoint, cube, dot1, dot2) ==
    LET result == CheckAxes(dot1, "x", dot2, "z")
        dragDir == Sign(result.dot)
    IN  IF result.axis = "x"
        THEN [axis  |-> "z",
              layer |-> RoundToLayer(cube.position[3]),
              dir   |-> (IF dragDir = 1 THEN 1 ELSE -1) * Sign(normal[2])]
        ELSE [axis  |-> "x",
              layer |-> RoundToLayer(cube.position[1]),
              dir   |-> (IF dragDir = 1 THEN 1 ELSE -1) * Sign(normal[2])]

\* Top/Bottom face: tangents x and z
ResolveYFace(normal, startPoint, cube, dot1, dot2) ==
    LET result == CheckAxes(dot1, "x", dot2, "z")
        dragDir == Sign(result.dot)
    IN  IF result.axis = "x"
        THEN [axis  |-> "z",
              layer |-> RoundToLayer(cube.position[3]),
              dir   |-> (IF dragDir = 1 THEN -1 ELSE 1) * Sign(normal[2])]
        ELSE [axis  |-> "x",
              layer |-> RoundToLayer(cube.position[1]),
              dir   |-> (IF dragDir = 1 THEN 1 ELSE -1) * Sign(normal[2])]

\* faulty variant of ResolveZFace that takes the sense of a drag along x from
\* the side of the contact point
ResolveZFaceByContact(normal, startPoint, cube, dot1, dot2) ==
    LET result == CheckAxes(dot1, "x", dot2, "y")
        dragDir == Sign(result.dot)
    IN  IF result.axis = "x"
        THEN [axis  |-> "y",
              layer |-> RoundToLayer(cube.position[2]),
              dir   |-> (IF dragDir = 1 THEN 1 ELSE -1) * Sign(startPoint[2])]
        ELSE [axis  |-> "x",
              layer |-> RoundToLayer(cube.position[1]),
              dir   |-> (IF dragDir = 1 THEN -1 ELSE 1) * Sign(normal[3])]

\* faulty variant of ResolveZFace that reads the layer of a turn about y from
\* the x coordinate
ResolveZFaceWrongLayer(normal, startPoint, cube, dot1, dot2) ==
    LET result == CheckAxes(dot1, "x", dot2, "y")
        dragDir == Sign(result.dot)
    IN  IF result.axis = "x"
        THEN [axis  |-> "y",
              layer |-> RoundToLayer(cube.position[1]),
              dir   |-> (IF dragDir = 1 THEN 1 ELSE -1) * Sign(normal[3])]
        ELSE [axis  |-> "x",
              layer |-> RoundToLayer(cube.position[1]),
              dir   |-> (IF dragDir = 1 THEN -1 ELSE 1) * Sign(normal[3])]

\* Front/Back face, the branch of every other normal: tangents x and y
ResolveZFace(normal, startPoint, cube, dot1, dot2) ==
    LET result == CheckAxes(dot1, "x", dot2, "y")
        dragDir == Sign(result.dot)
    IN  IF result.axis = "x"
        THEN [axis  |-> "y",
              layer |-> RoundToLayer(cube.position[2]),
              dir   |-> (IF dragDir = 1 THEN 1 ELSE -1) * Sign(normal[3])]
        ELSE [axis  |-> "x",
              layer |-> RoundToLayer(cube.position[1]),
              dir   |-> (IF dragDir = 1 THEN -1 ELSE 1) * Sign(normal[3])]

\* the move handleGlobalMove enqueues once the drag exceeds the threshold
ResolveMove(normal, startPoint, cube, dot1, dot2) ==
    IF ClassifyFace(normal) = "x"
    THEN ResolveXFace(normal, startPoint, cube, dot1, dot2)
    ELSE IF ClassifyFace(normal) = "y"
    THEN ResolveYFace(normal, startPoint, cube, dot1, dot2)
    ELSE ResolveZFace(normal, startPoint, cube, dot1, dot2)

(***************************************************************************)
(* State                                                                   *)
(***************************************************************************)
VARIABLES
    cubeState,          \* Game: the store, 27 records of position and colors
    moveQueue,          \* Game: moveQueue.current
    resetKey,           \* Game: key of the mounted Scene
    isAnimating,        \* Scene: isAnimating.current
    animationProgress,  \* Scene: animationProgress.current
    currentMove,        \* Scene: currentMove.current
    prevAngle,          \* Scene: prevAngle.current
    cubieRefs,          \* Scene: rotation applied to each cubie's THREE object
    interactionRef,     \* Scene: interactionRef.current of the live gesture
    grabbedCube,        \* cubeState[index] of the render that created the live handler
    enqueued,           \* history: moves pushed since the last reset
    committed,          \* history: moves committed since the last reset
    pastStores,         \* history: the stores before the last commits
    resetInFlight,      \* history: the last reset found a move animating
    gestureMoves,       \* history: moves enqueued by the handlers of the last pointer-down
    lastResolve         \* history: branch, drag and move of the last resolution since then

vars == << cubeState, moveQueue, resetKey, isAnimating, animationProgress,
           currentMove, prevAngle, cubieRefs, interactionRef, grabbedCube,
           enqueued, committed, pastStores, resetInFlight, gestureMoves, lastResolve >>

sceneRefs == << isAnimating, animationProgress, currentMove, prevAngle, cubieRefs >>
gesture == << interactionRef, grabbedCube >>
history == << enqueued, committed, pastStores, resetInFlight, gestureMoves, lastResolve >>

InitialInteraction ==
    [active |-> FALSE, startPoint |-> << 0, 0, 0 >>, normal |-> << 0, 0, 0 >>,
     intersectedCubieIndex |-> -1]

NoCube == [position |-> << 0, 0, 0 >>, colors |-> << Null, Null, Null, Null, Null, Null >>]

NoRotation == [i \in CubieIds |-> 0]

NoResolve == [face |-> "none", dot1 |-> 0, dot2 |-> 0, move |-> NullMove]

Init ==
    /\ cubeState = InitialState
    /\ moveQueue = << >>
    /\ resetKey = 0
    /\ isAnimating = FALSE
    /\ animationProgress = 0
    /\ currentMove = NullMove
    /\ prevAngle = 0
    /\ cubieRefs = NoRotation
    /\ interactionRef = InitialInteraction
    /\ grabbedCube = NoCube
    /\ enqueued = << >>
    /\ committed = << >>
    /\ pastStores = << >>
    /\ resetInFlight = FALSE
    /\ gestureMoves = 0
    /\ lastResolve = NoResolve

\* the last HistoryWindow entries of s
LastOf(s) ==
    IF Len(s) > HistoryWindow THEN SubSeq(s, Len(s) - HistoryWindow + 1, Len(s)) ELSE s

(***************************************************************************)
(* Operations                                                              *)
(***************************************************************************)
\* faulty variant of queueMove that restarts the animation in flight
QueueMoveRestarting(axis, layer, dir) ==
    LET move == [axis |-> axis, layer |-> layer, dir |-> dir]
    IN  /\ moveQueue' = Append(moveQueue, move)
        /\ enqueued' = Append(enqueued, move)
        /\ animationProgress' = 0
        /\ UNCHANGED << cubeState, resetKey, isAnimating, currentMove, prevAngle, cubieRefs,
                        gesture, committed, pastStores, resetInFlight, gestureMoves, lastResolve >>

\* faulty variant of queueMove that also applies the move to the store at once
QueueMoveApplying(axis, layer, dir) ==
    LET move == [axis |-> axis, layer |-> layer, dir |-> dir]
    IN  /\ moveQueue' = Append(moveQueue, move)
        /\ enqueued' = Append(enqueued, move)
        /\ cubeState' = FinishMove(cubeState, move)
        /\ UNCHANGED << resetKey, sceneRefs, gesture, committed, pastStores, resetInFlight, gestureMoves, lastResolve >>

\* Game.queueMove and Scene.queueMove: push onto moveQueue.current
QueueMove(axis, layer, dir) ==
    LET move == [axis |-> axis, layer |-> layer, dir |-> dir]
    IN  /\ moveQueue' = Append(moveQueue, move)
        /\ enqueued' = Append(enqueued, move)
        /\ UNCHANGED << cubeState, resetKey, sceneRefs, gesture, committed, pastStores, resetInFlight, gestureMoves, lastResolve >>

\* scramble: draws[i] holds the three Math.floor(Math.random() * length) of round i
ScrambleAxes == << "x", "y", "z" >>
ScrambleLayers == << -1, 0, 1 >>
ScrambleDirs == << 1, -1 >>

\* faulty variant of scramble that puts its moves ahead of the pending ones
ScrambleAhead(draws) ==
    LET pushed == [i \in 1 .. ScrambleCount |->
                      [axis  |-> ScrambleAxes[draws[i][1] + 1],
                       layer |-> ScrambleLayers[draws[i][2] + 1],
                       dir   |-> ScrambleDirs[draws[i][3] + 1]]]
    IN  /\ moveQueue' = pushed \o moveQueue
        /\ enqueued' = enqueued \o pushed
        /\ UNCHANGED << cubeState, resetKey, sceneRefs, gesture, committed, pastStores, resetInFlight, gestureMoves, lastResolve >>

Scramble(draws) ==
    LET pushed == [i \in 1 .. ScrambleCount |->
                      [axis  |-> ScrambleAxes[draws[i][1] + 1],
                       layer |-> ScrambleLayers[draws[i][2] + 1],
                       dir   |-> ScrambleDirs[draws[i][3] + 1]]]
    IN  /\ moveQueue' = moveQueue \o pushed
        /\ enqueued' = enqueued \o pushed
        /\ UNCHANGED << cubeState, resetKey, sceneRefs, gesture, committed, pastStores, resetInFlight, gestureMoves, lastResolve >>

\* faulty variants of reset: one leaves the queue as it is, one leaves the
\* scheduler's refs as they are
ResetKeepingQueue ==
    /\ resetKey' = resetKey + 1
    /\ cubeState' = ResetState
    /\ isAnimating' = FALSE
    /\ animationProgress' = 0
    /\ currentMove' = NullMove
    /\ prevAngle' = 0
    /\ cubieRefs' = NoRotation
    /\ interactionRef' = IF interactionRef.active THEN interactionRef ELSE InitialInteraction
    /\ UNCHANGED << moveQueue, grabbedCube, gestureMoves >>
    /\ lastResolve' = NoResolve
    /\ enqueued' = << >>
    /\ committed' = << >>
    /\ pastStores' = << >>
    /\ resetInFlight' = (isAnimating /\ currentMove # NullMove)

ResetKeepingScene ==
    /\ moveQueue' = << >>
    /\ resetKey' = resetKey + 1
    /\ cubeState' = ResetState
    /\ interactionRef' = IF interactionRef.active THEN interactionRef ELSE InitialInteraction
    /\ UNCHANGED << sceneRefs, grabbedCube, gestureMoves >>
    /\ lastResolve' = NoResolve
    /\ enqueued' = << >>
    /\ committed' = << >>
    /\ pastStores' = << >>
    /\ resetInFlight' = (isAnimating /\ currentMove # NullMove)

\* reset: empties the queue, remounts Scene (fresh refs) and replaces the store.
\* The window listeners of a live gesture belong to the unmounted Scene and
\* stay registered, with its interactionRef, until their cleanup runs.
Reset ==
    /\ moveQueue' = << >>
    /\ resetKey' = resetKey + 1
    /\ cubeState' = ResetState
    /\ isAnimating' = FALSE
    /\ animationProgress' = 0
    /\ currentMove' = NullMove
    /\ prevAngle' = 0
    /\ cubieRefs' = NoRotation
    /\ interactionRef' = IF interactionRef.active THEN interactionRef ELSE InitialInteraction
    /\ UNCHANGED << grabbedCube, gestureMoves >>
    /\ lastResolve' = NoResolve
    /\ enqueued' = << >>
    /\ committed' = << >>
    /\ pastStores' = << >>
    /\ resetInFlight' = (isAnimating /\ currentMove # NullMove)

\* faulty variant of shift() that takes the newest entry
ShiftLast(queue) ==
    [move |-> queue[Len(queue)], rest |-> SubSeq(queue, 1, Len(queue) - 1)]

\* moveQueue.current.shift(): the head, and what stays queued
Shift(queue) == [move |-> Head(queue), rest |-> Tail(queue)]

\* faulty variant of the clamp that lets the progress pass 1
ClampProgressNone(raised) == raised

\* if (animationProgress.current >= 1) animationProgress.current = 1
ClampProgress(raised) == IF raised >= ProgressUnit THEN ProgressUnit ELSE raised

\* faulty variant of the completion test that fires at half of the animation
AnimationCompleteEarly(progress) == 2 * progress >= ProgressUnit

\* faulty variant of the completion test that misses the clamped value 1
AnimationOverrun(progress) == progress > ProgressUnit

\* animationProgress.current >= 1: the animation is complete
AnimationComplete(progress) == progress >= ProgressUnit

\* faulty variant of ActiveCubies that selects by the positions of the first
\* render instead of the rendered store
ActiveCubiesStale ==
    {i \in CubieIds : InLayer(InitialState[i].position, currentMove.axis, currentMove.layer)}

\* the cubies a tick rotates: those whose logical position in the rendered
\* store is in the moving layer
ActiveCubies ==
    {i \in CubieIds : InLayer(cubeState[i].position, currentMove.axis, currentMove.layer)}

\* faulty variant of Tick that starts the next move in the tick that commits
TickChained(delta) ==
    IF isAnimating /\ currentMove # NullMove
    THEN LET raised == animationProgress + delta * Speed
             progress == ClampProgress(raised)
             currentAngle == EasedT(progress) * currentMove.dir
             deltaAngle == currentAngle - prevAngle
             rotated == [i \in CubieIds |->
                            IF i \in ActiveCubies
                            THEN cubieRefs[i] + deltaAngle
                            ELSE cubieRefs[i]]
         IN  IF AnimationComplete(progress)
             THEN /\ cubeState' = FinishMove(cubeState, currentMove)
                  /\ cubieRefs' = NoRotation
                  /\ committed' = Append(committed, currentMove)
                  /\ pastStores' = LastOf(Append(pastStores, cubeState))
                  /\ IF Len(moveQueue) > 0
                     THEN /\ currentMove' = Shift(moveQueue).move
                          /\ moveQueue' = Shift(moveQueue).rest
                          /\ isAnimating' = TRUE
                          /\ animationProgress' = 0
                          /\ prevAngle' = 0
                     ELSE /\ currentMove' = NullMove
                          /\ isAnimating' = FALSE
                          /\ animationProgress' = progress
                          /\ prevAngle' = currentAngle
                          /\ UNCHANGED moveQueue
                  /\ UNCHANGED << resetKey, gesture, enqueued, resetInFlight, gestureMoves, lastResolve >>
             ELSE /\ animationProgress' = progress
                  /\ prevAngle' = currentAngle
                  /\ cubieRefs' = rotated
                  /\ UNCHANGED << isAnimating, cubeState, currentMove, committed, pastStores,
                                  moveQueue, resetKey, gesture, enqueued, resetInFlight,
                                  gestureMoves, lastResolve >>
    ELSE IF Len(moveQueue) > 0
    THEN /\ currentMove' = Shift(moveQueue).move
         /\ moveQueue' = Shift(moveQueue).rest
         /\ isAnimating' = TRUE
         /\ animationProgress' = 0
         /\ prevAngle' = 0
         /\ UNCHANGED << cubeState, resetKey, cubieRefs, gesture, history >>
    ELSE UNCHANGED vars

\* the useFrame callback with frame time delta
Tick(delta) ==
    IF isAnimating /\ currentMove # NullMove
    THEN LET raised == animationProgress + delta * Speed
             progress == ClampProgress(raised)
             currentAngle == EasedT(progress) * currentMove.dir
             deltaAngle == currentAngle - prevAngle
             rotated == [i \in CubieIds |->
                            IF i \in ActiveCubies
                            THEN cubieRefs[i] + deltaAngle
                            ELSE cubieRefs[i]]
         IN  /\ animationProgress' = progress
             /\ prevAngle' = currentAngle
             /\ IF AnimationComplete(progress)
                THEN /\ isAnimating' = FALSE
                     /\ cubeState' = FinishMove(cubeState, currentMove)
                     /\ currentMove' = NullMove
                     \* the re-render with the new store resets every cubie's rotation
                     /\ cubieRefs' = NoRotation
                     /\ committed' = Append(committed, currentMove)
                     /\ pastStores' = LastOf(Append(pastStores, cubeState))
                ELSE /\ cubieRefs' = rotated
                     /\ UNCHANGED << isAnimating, cubeState, currentMove, committed, pastStores >>
             /\ UNCHANGED << moveQueue, resetKey, gesture, enqueued, resetInFlight, gestureMoves, lastResolve >>
    ELSE IF Len(moveQueue) > 0
    THEN /\ currentMove' = Shift(moveQueue).move
         /\ moveQueue' = Shift(moveQueue).rest
         /\ isAnimating' = TRUE
         /\ animationProgress' = 0
         /\ prevAngle' = 0
         /\ UNCHANGED << cubeState, resetKey, cubieRefs, gesture, history >>
    ELSE UNCHANGED vars

\* handlePointerDown on cubie index: contact normal and point in world space
PointerDown(index, normal, startPoint) ==
    /\ interactionRef' = [active |-> TRUE, startPoint |-> startPoint, normal |-> normal,
                          intersectedCubieIndex |-> index]
    /\ grabbedCube' = cubeState[index]
    /\ gestureMoves' = 0
    /\ lastResolve' = NoResolve
    /\ UNCHANGED << cubeState, moveQueue, resetKey, sceneRefs, enqueued, committed, pastStores, resetInFlight >>

\* faulty variant of cleanup that leaves the interaction active
CleanupStayingActive == interactionRef

\* cleanup
Cleanup == [interactionRef EXCEPT !.active = FALSE]

\* handleGlobalMove: dist is the drag length in NDC, dot1 and dot2 the drag's
\* components along the two projected tangent axes
PointerMove(dist, dot1, dot2) ==
    IF ~interactionRef.active
    THEN UNCHANGED vars
    ELSE IF dist > DragThreshold
    THEN LET move == ResolveMove(interactionRef.normal, interactionRef.startPoint,
                                 grabbedCube, dot1, dot2)
         IN  /\ moveQueue' = Append(moveQueue, move)
             /\ enqueued' = Append(enqueued, move)
             /\ interactionRef' = Cleanup
             /\ gestureMoves' = gestureMoves + 1
             /\ lastResolve' = [face |-> ClassifyFace(interactionRef.normal),
                                 dot1 |-> dot1, dot2 |-> dot2, move |-> move]
             /\ UNCHANGED << cubeState, resetKey, sceneRefs, grabbedCube, committed, pastStores, resetInFlight >>
    ELSE UNCHANGED vars

\* handleGlobalUp
PointerUp ==
    /\ interactionRef' = Cleanup
    /\ UNCHANGED << cubeState, moveQueue, resetKey, sceneRefs, grabbedCube, history >>

(***************************************************************************)
(* The game: every operation, with inputs from small sets                  *)
(***************************************************************************)
\* the buttons R and U' of the page
PressedButtons ==
    { [axis |-> "x", layer |-> 1, dir |-> 1],
      [axis |-> "y", layer |-> 1, dir |-> -1] }

\* outcomes of the random draws of one scramble: two draws taken in turn
DrawPairs ==
    { << << 0, 2, 0 >>, << 1, 1, 1 >> >>,
      << << 2, 0, 1 >>, << 0, 2, 1 >> >> }

ScrambleDraws ==
    { [i \in 1 .. ScrambleCount |-> IF i % 2 = 1 THEN pair[1] ELSE pair[2]] : pair \in DrawPairs }

\* the cubie the pointer goes down on: the edge that starts at (1, 1, 0)
GrabbedCubies == {25}

\* unit vector (in thousandths) of a face direction
UnitNormal(axis, sign) == [k \in 1 .. 3 |-> IF k = AxisIndex(axis) THEN sign * 1000 ELSE 0]

\* the normals of the outward faces of a cubie at position pos
OutwardNormals(pos) ==
    { UnitNormal(axis, Sign(pos[AxisIndex(axis)])) :
        axis \in {a \in Axes : Abs(pos[AxisIndex(a)]) = Spacing} }

\* contact point at the middle of a face of a unit cubie
FaceCentre(pos, normal) == [k \in 1 .. 3 |-> pos[k] + normal[k] \div 2]

\* sine, in thousandths, of f thousandths of a quarter turn (0 <= f <= 2000),
\* by Bhaskara's rational approximation (exact at 0, 1/3, 1, 5/3 and 2 quarter
\* turns, within 0.002 elsewhere)
SinQ(f) == (4 * f * (2000 - f)) \div ((5000000 - f * (2000 - f)) \div 1000)

\* p / 1000 rounded to the nearest integer
Scale(p) == Sign(p) * ((Abs(p) + 500) \div 1000)

\* applyAxisAngle: v turned about a world axis by angle / EaseDen quarter turns
\* (right-handed: a positive angle about z takes +x towards +y)
ApplyAxisAngle(v, axis, angle) ==
    LET f == (1000 * Abs(angle)) \div EaseDen
        sin == Sign(angle) * SinQ(f)
        cos == SinQ(1000 - f)
    IN  IF angle = 0
        THEN v
        ELSE IF axis = "x"
        THEN << v[1], Scale(v[2] * cos - v[3] * sin), Scale(v[2] * sin + v[3] * cos) >>
        ELSE IF axis = "y"
        THEN << Scale(v[1] * cos + v[3] * sin), v[2], Scale(v[3] * cos - v[1] * sin) >>
        ELSE << Scale(v[1] * cos - v[2] * sin), Scale(v[1] * sin + v[2] * cos), v[3] >>

\* a vector of cubie index in world space: the cubie's THREE object carries the
\* rotation the animation has applied to it so far
ToWorld(v, index) ==
    ApplyAxisAngle(v, IF isAnimating THEN currentMove.axis ELSE "x", cubieRefs[index])

DragLengths == {20, 80}
DragDots == { << 900, -300 >>, << -200, 700 >> }
Deltas == 1 .. MaxDelta

\* the buttons and gestures enqueue up to MaxEnqueued moves before the first
\* reset and one move fewer after every reset
EnqueueLimit == IF resetKey < MaxEnqueued THEN MaxEnqueued - resetKey ELSE 0

PressButton ==
    \E m \in PressedButtons :
        /\ Len(enqueued) < EnqueueLimit
        /\ QueueMove(m.axis, m.layer, m.dir)

\* scramble is pressed on a cube nothing was enqueued for since its start or reset
PressScramble ==
    \E draws \in ScrambleDraws :
        /\ enqueued = << >>
        /\ Scramble(draws)

PressReset ==
    /\ resetKey < MaxResets
    /\ Reset

Frame == \E delta \in Deltas : Tick(delta)

\* one pointer: it goes down only when no gesture is live
Grab ==
    \E index \in GrabbedCubies :
        \E normal \in OutwardNormals(cubeState[index].position) :
            /\ ~interactionRef.active
            /\ Len(enqueued) < EnqueueLimit
            /\ PointerDown(index, ToWorld(normal, index),
                           ToWorld(FaceCentre(cubeState[index].position, normal), index))

Drag ==
    \E dist \in DragLengths :
        \E dots \in DragDots :
            /\ Len(enqueued) < EnqueueLimit
            /\ PointerMove(dist, dots[1], dots[2])

Release == PointerUp

Next ==
    \/ PressButton
    \/ PressScramble
    \/ PressReset
    \/ Frame
    \/ Grab
    \/ Drag
    \/ Release

Spec == Init /\ [][Next]_vars

(***************************************************************************)
(* The move engine: scripts of moves over all 18 moves, committed one      *)
(* after the other.  A script is a free part of at most MaxFree moves,     *)
(* then either the same move again (up to a full turn of four) or the      *)
(* inverses of the free part in reverse order.  Between two moves the      *)
(* cube may be reset.                                                      *)
(***************************************************************************)
InverseMove(m) == [m EXCEPT !.dir = -m.dir]

\* every reset shortens the free part of the scripts that follow it by one
FreeLimit == IF resetKey < MaxFree THEN MaxFree - resetKey ELSE 0

IsRepeatScript(h) ==
    \E n \in 0 .. (FreeLimit - 1) :
        /\ Len(h) - n \in 1 .. 4
        /\ \A i \in (n + 1) .. Len(h) : h[i] = h[n + 1]

IsUndoScript(h) ==
    \E n \in 1 .. FreeLimit :
        /\ Len(h) \in (n + 1) .. (2 * n)
        /\ \A i \in (n + 1) .. Len(h) : h[i] = InverseMove(h[2 * n + 1 - i])

IsScript(h) == Len(h) <= FreeLimit \/ IsRepeatScript(h) \/ IsUndoScript(h)

ScriptMove ==
    \E m \in Moves :
        /\ ~isAnimating
        /\ moveQueue = << >>
        /\ IsScript(Append(enqueued, m))
        /\ QueueMove(m.axis, m.layer, m.dir)

WholeFrame == Tick(MaxDelta)

\* a reset between two moves
ResetIdle ==
    /\ ~isAnimating
    /\ moveQueue = << >>
    /\ PressReset

NextMoves ==
    \/ ScriptMove
    \/ WholeFrame
    \/ ResetIdle

SpecMoves == Init /\ [][NextMoves]_vars

(***************************************************************************)
(* Properties of the move engine, checked under SpecMoves                  *)
(***************************************************************************)
GridCells ==
    { << x * Spacing, y * Spacing, z * Spacing >> : x \in Layers, y \in Layers, z \in Layers }

CountOf(colors, tag) == Cardinality({s \in Slots : colors[s] = tag})

TagsOf(colors) == {colors[s] : s \in Slots} \ {Null}

\* in the solved configuration no cubie carries a tag twice, so a colour array
\* holds the same multiset as the solved one iff it holds the same set of tags
\* and as many empty slots
SolvedTags == [i \in CubieIds |-> TagsOf(InitialState[i].colors)]
SolvedEmpty == [i \in CubieIds |-> CountOf(InitialState[i].colors, Null)]
SolvedTagsDistinct ==
    \A i \in CubieIds : Cardinality(SolvedTags[i]) + SolvedEmpty[i] = Cardinality(Slots)

\* the store before the k-th last commit (k = 1 is the last commit)
StoreBefore(k) == pastStores[Len(pastStores) + 1 - k]

\* the k-th last committed move
Committed(k) == committed[Len(committed) + 1 - k]

\* C1: in every reachable state the 27 positions are pairwise distinct and are
\* exactly the 27 grid cells scaled by the spacing, and every (axis, layer)
\* pair selects exactly 9 cubies.
PositionsArePermutation ==
    /\ Cardinality({cubeState[i].position : i \in CubieIds}) = Cardinality(CubieIds)
    /\ {cubeState[i].position : i \in CubieIds} = GridCells
    /\ \A axis \in Axes : \A layer \in Layers :
           Cardinality(IndicesToRotate(cubeState, [axis |-> axis, layer |-> layer, dir |-> 1])) = 9

PositionsPermutedWitness ==
    /\ resetKey >= 1
    /\ Len(committed) >= 3
    /\ \E i \in CubieIds : cubeState[i].position # InitialState[i].position

\* C2: every cubie holds, in its 6 slots, the multiset of colour tags (and of
\* empty slots) it had in the solved configuration.
ColorMultisetsKept ==
    /\ SolvedTagsDistinct
    /\ \A i \in CubieIds :
           /\ TagsOf(cubeState[i].colors) = SolvedTags[i]
           /\ CountOf(cubeState[i].colors, Null) = SolvedEmpty[i]

ColorsReorientedWitness ==
    /\ Len(committed) >= 3
    /\ \E i \in CubieIds :
           /\ cubeState[i].colors # InitialState[i].colors
           /\ cubeState[i].position = InitialState[i].position

\* C3: when the last two commits are a move and then its inverse, the store
\* equals the store before the two commits, in every position and colour array.
InverseRestores ==
    (Len(committed) >= 2 /\ Committed(1) = InverseMove(Committed(2)))
        => cubeState = StoreBefore(2)

InverseRestoresWitness ==
    /\ Len(committed) >= 3
    /\ Committed(1) = InverseMove(Committed(2))
    /\ StoreBefore(2) # InitialState
    /\ StoreBefore(1) # StoreBefore(2)

\* C4: when the last four commits are the same move, the store equals the store
\* before the four commits.
FourTurnsRestore ==
    (Len(committed) >= 4 /\ \A k \in 2 .. 4 : Committed(k) = Committed(1))
        => cubeState = StoreBefore(4)

FourTurnsWitness ==
    /\ Len(committed) >= 5
    /\ \A k \in 2 .. 4 : Committed(k) = Committed(1)
    /\ Committed(5) # Committed(1)
    /\ StoreBefore(4) # InitialState
    /\ StoreBefore(2) # StoreBefore(4)

\* the cubies whose coordinate on the move's axis equals the move's layer
LayerOf(store, move) ==
    {i \in CubieIds : store[i].position[AxisIndex(move.axis)] = move.layer * Spacing}

\* C8: a commit of (axis, layer, dir) rewrites the 9 cubies whose coordinate on
\* axis equals layer, which stay in that layer and occupy the same 9 cells, and
\* leaves the position and colour array of the other 18 unchanged; from solved,
\* (x, 1, +1) takes each cubie with x = +1 from (x, y, z) to (x, -z, y) and its
\* colours [c0, c1, c2, c3, c4, c5] to [c0, c1, c5, c4, c2, c3].
CommitRotatesOneLayer ==
    Len(committed) >= 1 =>
        LET before == StoreBefore(1)
            move == Committed(1)
            layer == LayerOf(before, move)
        IN  /\ Cardinality(layer) = 9
            /\ \A i \in CubieIds \ layer : cubeState[i] = before[i]
            /\ LayerOf(cubeState, move) = layer
            /\ {cubeState[i].position : i \in layer} = {before[i].position : i \in layer}
            /\ \A i \in layer :
                   (\E k \in 1 .. 3 : k # AxisIndex(move.axis) /\ before[i].position[k] # 0)
                       => cubeState[i].position # before[i].position
            /\ (before = InitialState /\ move = [axis |-> "x", layer |-> 1, dir |-> 1]) =>
                   \A i \in layer :
                       LET p == before[i].position
                           c == before[i].colors
                       IN  /\ cubeState[i].position = << p[1], -p[3], p[2] >>
                           /\ cubeState[i].colors = << c[1], c[2], c[6], c[5], c[3], c[4] >>

CommitRotatesWitness ==
    /\ Len(committed) = 1
    /\ Committed(1) = [axis |-> "x", layer |-> 1, dir |-> 1]
    /\ StoreBefore(1) = InitialState
    /\ cubeState[26].position = << Spacing, -Spacing, Spacing >>
    /\ cubeState[26].colors = << "0", Null, Null, "4", "2", Null >>

\* C9: when the commits since the solved configuration are moves m1 .. mn
\* followed by inverse(mn) .. inverse(m1), the store is the solved configuration.
IsUndone(h) ==
    /\ Len(h) >= 2
    /\ Len(h) % 2 = 0
    /\ \A i \in 1 .. (Len(h) \div 2) : h[Len(h) + 1 - i] = InverseMove(h[i])

UndoRestoresSolved == IsUndone(committed) => cubeState = InitialState

UndoRestoresWitness ==
    /\ IsUndone(committed)
    /\ Len(committed) >= 4
    /\ committed[1].axis # committed[2].axis
    /\ StoreBefore(2) # InitialState

(***************************************************************************)
(* Properties of the scheduler and of reset, checked under Spec            *)
(***************************************************************************)
\* the move in flight, as a sequence of length 0 or 1
InFlight == IF isAnimating THEN << currentMove >> ELSE << >>

IsPrefix(s, t) == Len(s) <= Len(t) /\ SubSeq(t, 1, Len(s)) = s

\* C5: in a run without reset the committed moves are a prefix of the enqueued
\* moves, in the same order: the enqueued moves are exactly the committed ones,
\* then the one in flight, then the queue.
CommitsFollowQueueOrder ==
    resetKey = 0 =>
        /\ IsPrefix(committed, enqueued)
        /\ enqueued = committed \o InFlight \o moveQueue

QueueOrderWitness ==
    /\ resetKey = 0
    /\ Len(committed) >= 3
    /\ committed[1] # committed[2]
    /\ isAnimating
    /\ animationProgress > 0
    /\ Len(moveQueue) >= 2

\* the solved configuration, by coordinates: the cubie of grid cell (x, y, z)
\* carries a tag in slot +X iff x = 1, -X iff x = -1, and so on
SolvedByCoordinates ==
    \A i \in CubieIds :
        LET p == InitialState[i].position
            c == InitialState[i].colors
        IN  /\ p = << GridX(i) * Spacing, GridY(i) * Spacing, GridZ(i) * Spacing >>
            /\ \A k \in 1 .. 3 :
                   /\ c[2 * k - 1] # Null <=> p[k] = Spacing
                   /\ c[2 * k] # Null <=> p[k] = -Spacing

IsSolved(store) == SolvedByCoordinates /\ store = InitialState

\* C6: a reset leaves the queue empty and the store solved, whatever the state
\* it happens in, and the store stays solved as long as nothing is enqueued.
ResetRestoresSolved ==
    [][ /\ resetKey' # resetKey => (moveQueue' = << >> /\ IsSolved(cubeState'))
        /\ enqueued' = << >> => IsSolved(cubeState') ]_vars

ResetWitness ==
    /\ resetKey >= 1
    /\ resetInFlight
    /\ enqueued = << >>
    /\ interactionRef.active
    /\ grabbedCube # InitialState[interactionRef.intersectedCubieIndex]

\* C7: a reset leaves the scheduler idle with fresh animation state, and the
\* move it found animating is never committed: every commit is of the move in
\* flight, and the moves committed, in flight and queued are those enqueued
\* since the reset.
ResetDiscardsInFlight ==
    [][ /\ resetKey' # resetKey =>
               (~isAnimating' /\ currentMove' = NullMove /\ animationProgress' = 0 /\ prevAngle' = 0)
        /\ committed' # committed /\ committed' # << >> =>
               (isAnimating /\ committed' = Append(committed, currentMove))
        /\ enqueued' = committed' \o InFlight' \o moveQueue' ]_vars

DiscardWitness ==
    /\ resetKey >= 1
    /\ resetInFlight
    /\ Len(committed) >= 1
    /\ ~isAnimating

\* C10: the store changes only in the tick that completes the move in flight
\* (by that move's commit) and on reset; enqueueing, popping, advancing and the
\* pointer handlers leave it unchanged.
StoreChangesOnlyAtCommit ==
    [][ cubeState' # cubeState =>
            \/ resetKey' # resetKey
            \/ /\ isAnimating /\ ~isAnimating'
               /\ animationProgress' = ProgressUnit
               /\ committed' = Append(committed, currentMove)
               /\ moveQueue' = moveQueue
               /\ enqueued' = enqueued
               /\ interactionRef' = interactionRef ]_vars

StoreKeptWitness ==
    /\ Len(committed) >= 1
    /\ cubeState # InitialState
    /\ isAnimating
    /\ animationProgress > 0
    /\ moveQueue # << >>
    /\ ~interactionRef.active
    /\ interactionRef.intersectedCubieIndex >= 0

(***************************************************************************)
(* Malformed moves                                                         *)
(***************************************************************************)
\* C11: a move whose axis, layer or direction lies outside its domain is
\* rejected at queueMove: the queue only ever holds well-formed moves.
QueueHoldsWellFormedMoves ==
    \A k \in 1 .. Len(moveQueue) : moveQueue[k] \in Moves

\* C12: a malformed move that was submitted leaves the store as it would be
\* without it: no tick changes the store while a malformed move is in flight.
MalformedMoveLeavesStore ==
    [][ (isAnimating /\ currentMove \notin Moves /\ resetKey' = resetKey)
            => cubeState' = cubeState ]_vars

(***************************************************************************)
(* A run without reset and without gestures: the buttons, scramble at any   *)
(* moment, and frames that keep coming.                                    *)
(***************************************************************************)
PressScrambleBusy ==
    \E draws \in ScrambleDraws :
        /\ Len(enqueued) <= MaxEnqueued
        /\ Scramble(draws)

NextRun ==
    \/ PressButton
    \/ PressScrambleBusy
    \/ Frame

SpecRun == Init /\ [][NextRun]_vars /\ WF_vars(Frame)

\* C13: scramble (the only step that enqueues more than one move) appends
\* exactly 20 well-formed moves behind the pending ones, which keep their
\* order, and leaves the move in flight, its progress and the store alone.
ScrambleAppendsTwenty ==
    [][ Len(enqueued') > Len(enqueued) + 1 =>
            /\ Len(moveQueue') = Len(moveQueue) + ScrambleCount
            /\ SubSeq(moveQueue', 1, Len(moveQueue)) = moveQueue
            /\ \A k \in (Len(moveQueue) + 1) .. Len(moveQueue') : moveQueue'[k] \in Moves
            /\ enqueued' = enqueued \o SubSeq(moveQueue', Len(moveQueue) + 1, Len(moveQueue'))
            /\ UNCHANGED << cubeState, sceneRefs >> ]_vars

ScrambleWitness ==
    /\ Len(enqueued) = MaxEnqueued + ScrambleCount
    /\ committed = << >>
    /\ isAnimating
    /\ animationProgress > 0
    /\ currentMove = enqueued[1]
    /\ Len(moveQueue) = Len(enqueued) - 1
    /\ moveQueue[1] = enqueued[2]
    /\ moveQueue[1] # moveQueue[2]

(***************************************************************************)
(* Gestures                                                                *)
(***************************************************************************)
\* C14: the handlers of one pointer-down enqueue at most one move, and the
\* step that enqueues it (a pointer-move of an active interaction) enqueues
\* exactly one move and ends the interaction; an interaction that ends
\* otherwise (pointer-up) enqueues nothing.
GestureEnqueuesOnce ==
    [][ /\ gestureMoves' <= 1
        /\ gestureMoves' = 1 => ~interactionRef'.active
        /\ gestureMoves' > gestureMoves =>
               /\ interactionRef.active
               /\ Len(enqueued') = Len(enqueued) + 1
               /\ moveQueue' = Append(moveQueue, enqueued'[Len(enqueued')])
        /\ (interactionRef.active /\ ~interactionRef'.active
                /\ gestureMoves' = gestureMoves /\ resetKey' = resetKey) =>
               (enqueued' = enqueued /\ moveQueue' = moveQueue) ]_vars

GestureOnceWitness ==
    /\ gestureMoves = 1
    /\ ~interactionRef.active
    /\ resetKey = 0
    /\ Len(enqueued) = 1
    /\ Len(committed) = 1

(***************************************************************************)
(* Sense of rotation and colour slots, checked under SpecMoves             *)
(***************************************************************************)
\* the axis after axis in the right-handed order x, y, z, x
NextAxis(axis) == IF axis = "x" THEN "y" ELSE IF axis = "y" THEN "z" ELSE "x"

\* the cubie of the layer of move that sat, in store, on the positive side of
\* the axis tangent (a layer of 9 has exactly one)
OnPositiveSide(store, move, tangent) ==
    {i \in LayerOf(store, move) :
        /\ store[i].position[AxisIndex(tangent)] = Spacing
        /\ \A k \in 1 .. 3 :
               (k # AxisIndex(tangent) /\ k # AxisIndex(move.axis)) => store[i].position[k] = 0}

Populated(cubie) == Cardinality({s \in Slots : cubie.colors[s] # Null})
Extremes(cubie) == Cardinality({k \in 1 .. 3 : Abs(cubie.position[k]) = Spacing})

\* C16 as claimed: every one of the 27 cubies has 1, 2 or 3 populated slots,
\* never 0, as many as it has coordinates at an extreme.
EveryCubieHasStickers ==
    \A i \in CubieIds :
        /\ Populated(cubeState[i]) \in 1 .. 3
        /\ Populated(cubeState[i]) = Extremes(cubeState[i])

\* C16 as amended: every cubie has as many populated slots as coordinates at an
\* extreme; that is 1, 2 or 3 for 26 cubies and 0 for exactly one, the cubie of
\* the cell (0, 0, 0), which the store holds like the others.
StickerCountMatchesExtremes ==
    /\ \A i \in CubieIds : Populated(cubeState[i]) = Extremes(cubeState[i])
    /\ Cardinality({i \in CubieIds : Populated(cubeState[i]) \in 1 .. 3}) = 26
    /\ \A i \in CubieIds :
           Populated(cubeState[i]) = 0 <=> cubeState[i].position = << 0, 0, 0 >>

StickerCountWitness ==
    /\ Len(committed) >= 2
    /\ Committed(1).axis # Committed(2).axis
    /\ cubeState[26].position # InitialState[26].position
    /\ cubeState[26].colors # InitialState[26].colors
    /\ Populated(cubeState[26]) = 3
    /\ Populated(cubeState[13]) = 0

(***************************************************************************)
(* The scheduler                                                           *)
(***************************************************************************)
\* C17: one move at most is in flight.  The queue shrinks only by the tick of
\* an idle scheduler, which takes its head; the move in flight stays until it
\* completes; a step that enqueues (queueMove, scramble, a gesture) puts its
\* moves behind the pending ones and leaves the move in flight, its progress,
\* the rotation applied so far and the cubies it rotates as they are.
SingleMoveInFlight ==
    [][ /\ (Len(moveQueue') < Len(moveQueue) /\ resetKey' = resetKey) =>
               /\ ~isAnimating
               /\ isAnimating'
               /\ currentMove' = Head(moveQueue)
               /\ moveQueue' = Tail(moveQueue)
               /\ animationProgress' = 0
        /\ (isAnimating /\ isAnimating' /\ resetKey' = resetKey) =>
               (currentMove' = currentMove /\ animationProgress' >= animationProgress)
        /\ Len(InFlight') <= 1
        /\ Len(enqueued') > Len(enqueued) =>
               /\ SubSeq(moveQueue', 1, Len(moveQueue)) = moveQueue
               /\ Len(moveQueue') - Len(moveQueue) = Len(enqueued') - Len(enqueued)
               /\ UNCHANGED sceneRefs
               /\ isAnimating =>
                      IndicesToRotate(cubeState', currentMove') = IndicesToRotate(cubeState, currentMove) ]_vars

SingleMoveWitness ==
    /\ isAnimating
    /\ animationProgress > 0
    /\ committed = << >>
    /\ Len(moveQueue) = 1
    /\ gestureMoves = 1
    /\ interactionRef.normal[2] # 0
    /\ interactionRef.normal[3] # 0

\* C18: with frames that keep coming and no reset, the scheduler ends idle
\* with an empty queue and with every move that was enqueued committed (the
\* enqueued moves only grow, so each of them is eventually committed); a tick
\* of an animation adds delta * speed to the progress, up to 1, whatever the
\* move and the store, and the move completes in the tick that reaches 1.
EveryMoveCompletes ==
    /\ <>[](~isAnimating /\ moveQueue = << >> /\ committed = enqueued)
    /\ [][ (isAnimating /\ animationProgress' # animationProgress) =>
               /\ \E delta \in Deltas :
                      animationProgress' =
                          IF animationProgress + delta * Speed >= ProgressUnit
                          THEN ProgressUnit
                          ELSE animationProgress + delta * Speed
               /\ isAnimating' <=> animationProgress' < ProgressUnit
               /\ ~isAnimating' => committed' = Append(committed, currentMove) ]_vars

AllCompletedWitness ==
    /\ ~isAnimating
    /\ moveQueue = << >>
    /\ committed = enqueued
    /\ Len(committed) = MaxEnqueued + ScrambleCount
    /\ committed[1] # committed[2]

\* the face direction of a colour slot (+X, -X, +Y, -Y, +Z, -Z), as the
\* offset from a cell to its neighbour on that side, and the slot of a direction
SlotDirection(s) ==
    [k \in 1 .. 3 |-> IF k = (s + 1) \div 2 THEN (IF s % 2 = 1 THEN Spacing ELSE -Spacing) ELSE 0]

SlotOf(d) == CHOOSE s \in Slots : SlotDirection(s) = d

\* where the last commit took the face direction d: the cubie that sat in the
\* moved layer at offset d from the axis sits at the offset returned
TurnedDirection(d) ==
    LET move == Committed(1)
        a == AxisIndex(move.axis)
        j == CHOOSE j \in CubieIds :
                 StoreBefore(1)[j].position = [k \in 1 .. 3 |-> IF k = a THEN move.layer * Spacing ELSE d[k]]
    IN  [k \in 1 .. 3 |-> IF k = a THEN 0 ELSE cubeState[j].position[k]]

\* C19: at a commit, on every cubie of the layer, the colour of the slot of
\* face direction d ends in the slot of the direction the move's rotation
\* takes d to, and the two slots on the rotation axis keep their colours.
ColorsFollowRotation ==
    Len(committed) >= 1 =>
        LET move == Committed(1)
            before == StoreBefore(1)
        IN  \A i \in LayerOf(before, move) :
                \A s \in Slots :
                    IF (s + 1) \div 2 = AxisIndex(move.axis)
                    THEN cubeState[i].colors[s] = before[i].colors[s]
                    ELSE /\ TurnedDirection(SlotDirection(s)) # SlotDirection(s)
                         /\ cubeState[i].colors[SlotOf(TurnedDirection(SlotDirection(s)))]
                                = before[i].colors[s]

ColorsFollowWitness ==
    /\ Len(committed) >= 2
    /\ Committed(1) = [axis |-> "y", layer |-> 1, dir |-> -1]
    /\ Committed(2).axis = "z"
    /\ \E i \in LayerOf(StoreBefore(1), Committed(1)) :
           /\ StoreBefore(1)[i].colors # InitialState[i].colors
           /\ cubeState[i].colors # StoreBefore(1)[i].colors
           /\ Populated(cubeState[i]) = 3

\* the cells occupied by a set of cubies in a store
CellsOf(store, ids) == {store[i].position : i \in ids}

\* C20: while a move animates, the cubies carrying its accumulated rotation are
\* exactly those whose position in the store lies in the moving layer, whatever
\* was committed before, and the commit that ends the animation permutes
\* exactly that set: the others keep their records, and the set keeps its cells.
RotatedSetIsMovedLayer ==
    /\ [](isAnimating =>
            \A i \in CubieIds :
                cubieRefs[i] = IF i \in LayerOf(cubeState, currentMove) THEN prevAngle ELSE 0)
    /\ [][(isAnimating /\ ~isAnimating' /\ resetKey' = resetKey) =>
            LET layer == LayerOf(cubeState, currentMove)
            IN  /\ \A i \in CubieIds : (prevAngle # 0 => (cubieRefs[i] # 0 <=> i \in layer))
                /\ \A i \in CubieIds \ layer : cubeState'[i] = cubeState[i]
                /\ CellsOf(cubeState', layer) = CellsOf(cubeState, layer)
                /\ \A i \in layer :
                       (\E k \in 1 .. 3 : k # AxisIndex(currentMove.axis) /\ cubeState[i].position[k] # 0)
                           => cubeState'[i].position # cubeState[i].position]_vars

RotatedSetWitness ==
    /\ isAnimating
    /\ Len(committed) >= 1
    /\ currentMove \in Moves
    /\ LayerOf(cubeState, currentMove) # LayerOf(InitialState, currentMove)
    /\ \E i \in CubieIds : cubieRefs[i] # 0
    /\ \E i \in CubieIds : cubieRefs[i] = 0

(***************************************************************************)
(* Animation arithmetic                                                    *)
(***************************************************************************)
\* the rotation a cubie has received once the tick from the unprimed to the
\* primed state has applied its increment (the commit's re-render then resets it)
AngleAfterTick(i) == cubieRefs[i] + (prevAngle' - prevAngle)

\* C21: a move starts with prevAngle 0 and no cubie rotated; every tick adds
\* the eased angle minus the previous one to the cubies of the layer, never
\* against the move's direction; at the tick that commits a well-formed move
\* the increments of every cubie of the layer sum to dir quarter turns exactly,
\* and the position the commit writes is the cubie's position turned by that sum.
IncrementsSumToQuarterTurn ==
    [][ /\ (~isAnimating /\ isAnimating') =>
               (prevAngle' = 0 /\ cubieRefs' = NoRotation)
        /\ (isAnimating /\ isAnimating' /\ resetKey' = resetKey) =>
               /\ prevAngle' = EasedT(animationProgress') * currentMove.dir
               /\ (prevAngle' - prevAngle) * currentMove.dir >= 0
               /\ \A i \in LayerOf(cubeState, currentMove) : cubieRefs'[i] = AngleAfterTick(i)
        /\ (isAnimating /\ ~isAnimating' /\ resetKey' = resetKey) =>
               \A i \in LayerOf(cubeState, currentMove) :
                   /\ AngleAfterTick(i) = currentMove.dir * EaseDen
                   /\ currentMove \in Moves =>
                          cubeState'[i].position =
                              ApplyAxisAngle(cubeState[i].position, currentMove.axis, AngleAfterTick(i)) ]_vars

QuarterTurnWitness ==
    /\ ~isAnimating
    /\ Len(committed) >= 2
    /\ Committed(1) = [axis |-> "y", layer |-> 1, dir |-> -1]
    /\ prevAngle = -EaseDen
    /\ animationProgress = ProgressUnit
    /\ StoreBefore(1) # InitialState
    /\ \E i \in LayerOf(StoreBefore(1), Committed(1)) :
           cubeState[i].position # StoreBefore(1)[i].position

\* C22: the progress is within [0, 1], and below 1 while a move animates; it
\* starts at 0 at the pop and never decreases during the animation; the tick
\* on which it reaches 1 commits the move in flight and leaves the scheduler
\* idle with no current move, and there is no other commit: every popped move
\* is in flight or committed, once.
ProgressRunsZeroToOne ==
    /\ [](/\ animationProgress \in 0 .. ProgressUnit
          /\ isAnimating => (animationProgress < ProgressUnit /\ currentMove # NullMove)
          /\ ~isAnimating => currentMove = NullMove
          /\ Len(enqueued) - Len(moveQueue) = Len(committed) + Len(InFlight))
    /\ [][ /\ (~isAnimating /\ isAnimating') => animationProgress' = 0
           /\ (isAnimating /\ resetKey' = resetKey) =>
                  /\ animationProgress' >= animationProgress
                  /\ animationProgress' = ProgressUnit <=> ~isAnimating'
                  /\ ~isAnimating' =>
                         (currentMove' = NullMove /\ committed' = Append(committed, currentMove))
           /\ committed' # committed /\ resetKey' = resetKey =>
                  (isAnimating /\ animationProgress' = ProgressUnit
                      /\ Len(committed') = Len(committed) + 1) ]_vars

ProgressWitness ==
    /\ isAnimating
    /\ animationProgress > 0
    /\ animationProgress < ProgressUnit
    /\ Len(committed) >= 1
    /\ moveQueue = << >>
    /\ resetKey >= 1

(***************************************************************************)
(* The gesture resolver on its own: one gesture on the solved cube, on any  *)
(* outward face or rounded edge of a few cubies, at several contact points, *)
(* with drags along either tangent in either sense.                        *)
(***************************************************************************)
\* the cubies grabbed: the corners (-1,-1,-1), (1,1,-1), (1,1,1) and the edge (1,1,0)
ResolverCubies == {0, 24, 25, 26}

\* normals of the fillet between two outward faces of a cubie at pos, about 41
\* degrees off the first face (unit vectors, in thousandths)
FilletNormals(pos) ==
    { [k \in 1 .. 3 |-> IF k = a THEN 755 * Sign(pos[a])
                        ELSE IF k = b THEN 656 * Sign(pos[b]) ELSE 0] :
        a \in {k \in 1 .. 3 : Abs(pos[k]) = Spacing},
        b \in {k \in 1 .. 3 : Abs(pos[k]) = Spacing} } \ { << 0, 0, 0 >> }

ContactNormals(pos) ==
    OutwardNormals(pos) \cup {n \in FilletNormals(pos) : \E k \in 1 .. 3 : Abs(n[k]) = 656}

\* displacement of the contact point from the middle of the face, along the
\* face's tangents
ContactOffsets == {-300, 0, 300}

ContactPoint(pos, normal, offset) ==
    [k \in 1 .. 3 |-> FaceCentre(pos, normal)[k] + IF normal[k] = 0 THEN offset ELSE 0]

\* drags along the first or the second tangent, in either sense, and a drag
\* across both projected tangents
ResolverDots == { << 900, -300 >>, << -900, 300 >>, << -200, 700 >>, << 200, -700 >>, << 0, 0 >> }

GrabAny ==
    \E index \in ResolverCubies :
        \E normal \in ContactNormals(cubeState[index].position) :
            \E offset \in ContactOffsets :
                /\ ~interactionRef.active
                /\ enqueued = << >>
                /\ PointerDown(index, normal, ContactPoint(cubeState[index].position, normal, offset))

DragAny ==
    \E dist \in DragLengths :
        \E dots \in ResolverDots :
            PointerMove(dist, dots[1], dots[2])

NextResolver ==
    \/ GrabAny
    \/ DragAny
    \/ Release

SpecResolver == Init /\ [][NextResolver]_vars

\* the two tangent axes of a face, in the order of the drag's two components
FaceTangents(face) ==
    IF face = "x" THEN << "y", "z" >> ELSE IF face = "y" THEN << "x", "z" >> ELSE << "x", "y" >>

\* the dominant drag axis of a resolution
DragAxis(r) ==
    IF Abs(r.dot1) > Abs(r.dot2) THEN FaceTangents(r.face)[1] ELSE FaceTangents(r.face)[2]

\* the dominant dot product of a resolution
DragDot(r) == IF Abs(r.dot1) > Abs(r.dot2) THEN r.dot1 ELSE r.dot2

\* C23 as claimed: the rotation axis of a resolved move is one of the two axes
\* orthogonal to the grabbed face's normal, never the face-normal axis.
ResolvedAxisInFacePlane ==
    lastResolve # NoResolve =>
        /\ lastResolve.move.axis \in Axes
        /\ lastResolve.move.axis # lastResolve.face

\* C23 as amended: the rotation axis of a resolved move is never the dominant
\* drag axis; in five of the six sub-cases it is the other tangent axis of the
\* grabbed face, and on an X face dragged along y it is the face-normal axis x.
ResolvedAxisNotDragAxis ==
    lastResolve # NoResolve =>
        /\ lastResolve.move.axis \in Axes
        /\ lastResolve.move.axis # DragAxis(lastResolve)
        /\ IF lastResolve.face = "x" /\ DragAxis(lastResolve) = "y"
           THEN lastResolve.move.axis = "x"
           ELSE lastResolve.move.axis # lastResolve.face

FaceTurnWitness ==
    /\ lastResolve # NoResolve
    /\ interactionRef.normal = << -1000, 0, 0 >>
    /\ lastResolve.face = "x"
    /\ DragAxis(lastResolve) = "y"
    /\ lastResolve.move.axis = "x"
    /\ enqueued = << lastResolve.move >>

\* what the direction is claimed to depend on: the sub-case (face, dominant
\* tangent), the sign of the dominant dot product and the sign of the normal's
\* component on the face axis
DirectionKey(normal, dot1, dot2) ==
    LET r == [face |-> ClassifyFace(normal), dot1 |-> dot1, dot2 |-> dot2]
    IN  << r.face, DragAxis(r), Sign(DragDot(r)), Sign(normal[AxisIndex(r.face)]) >>

\* the same, and in the sub-case of an X face dragged along y the side of the
\* contact point on the z axis (z = 0 counts as positive)
DirectionKeyWithSide(normal, startPoint, dot1, dot2) ==
    LET key == DirectionKey(normal, dot1, dot2)
    IN  << key, IF key[1] = "x" /\ key[2] = "y"
                THEN (IF startPoint[3] < 0 THEN -1 ELSE 1)
                ELSE 0 >>

\* the gestures of the resolver's input sets, as the arguments of ResolveMove
OtherGestures ==
    UNION { { << normal, ContactPoint(cubeState[index].position, normal, offset),
                 cubeState[index], dots[1], dots[2] >> :
                normal \in ContactNormals(cubeState[index].position),
                offset \in ContactOffsets, dots \in ResolverDots } :
            index \in ResolverCubies }

\* C24 as claimed: a gesture that agrees with the resolved one on the sub-case,
\* the sign of the dominant dot product and the sign of the normal component on
\* the face axis resolves to the same direction, wherever its contact point is.
DirectionIgnoresContact ==
    lastResolve # NoResolve =>
        \A g \in OtherGestures :
            DirectionKey(g[1], g[4], g[5])
                    = DirectionKey(interactionRef.normal, lastResolve.dot1, lastResolve.dot2)
                => ResolveMove(g[1], g[2], g[3], g[4], g[5]).dir = lastResolve.move.dir

\* C24 as amended: the direction is a function of the sub-case, the sign of the
\* dominant dot product, the sign of the normal component on the face axis and,
\* in the sub-case of an X face dragged along y, the sign of the contact
\* point's z coordinate (positive when it is 0): two gestures that agree on
\* these resolve to the same direction.
DirectionDependsOnSideOnce ==
    lastResolve # NoResolve =>
        \A g \in OtherGestures :
            DirectionKeyWithSide(g[1], g[2], g[4], g[5])
                    = DirectionKeyWithSide(interactionRef.normal, interactionRef.startPoint,
                                           lastResolve.dot1, lastResolve.dot2)
                => ResolveMove(g[1], g[2], g[3], g[4], g[5]).dir = lastResolve.move.dir

DirectionSideWitness ==
    /\ lastResolve # NoResolve
    /\ lastResolve.face = "x"
    /\ DragAxis(lastResolve) = "y"
    /\ interactionRef.startPoint[3] < 0
    /\ \E g \in OtherGestures :
           /\ DirectionKey(g[1], g[4], g[5])
                  = DirectionKey(interactionRef.normal, lastResolve.dot1, lastResolve.dot2)
           /\ g[2][3] > 0
           /\ ResolveMove(g[1], g[2], g[3], g[4], g[5]).dir = -lastResolve.move.dir
    /\ \E g \in OtherGestures :
           /\ DirectionKeyWithSide(g[1], g[2], g[4], g[5])
                  = DirectionKeyWithSide(interactionRef.normal, interactionRef.startPoint,
                                         lastResolve.dot1, lastResolve.dot2)
           /\ g[2] # interactionRef.startPoint

\* the sense in which the quarter turn of move, as the commit applies it,
\* starts to carry the point p: the turned point without its component on the
\* axis (the cross product of the turn's axis with p)
TurnVelocity(p, move) ==
    [k \in 1 .. 3 |->
        IF k = AxisIndex(move.axis) THEN 0 ELSE RotatePosition(p, move.axis, move.dir)[k]]

\* the component of the contact point's motion along the dominant drag axis
DragMotion ==
    TurnVelocity(interactionRef.startPoint, lastResolve.move)[AxisIndex(DragAxis(lastResolve))]

\* C25: when the drag has a non-zero dominant dot product on a face the normal
\* has a component on, the turn of the resolved move carries the contact point
\* along the dominant drag axis in the sense of the drag, unless the contact
\* point has no lever arm (it then does not move along that axis at all).
TurnFollowsDrag ==
    (/\ lastResolve # NoResolve
     /\ DragDot(lastResolve) # 0
     /\ interactionRef.normal[AxisIndex(lastResolve.face)] # 0) =>
        /\ lastResolve.move \in Moves
        /\ DragMotion # 0 => Sign(DragMotion) = Sign(DragDot(lastResolve))
        /\ DragMotion = 0 =>
               (lastResolve.face = "x" /\ DragAxis(lastResolve) = "y"
                   /\ interactionRef.startPoint[3] = 0)

TurnFollowsWitness ==
    /\ lastResolve # NoResolve
    /\ interactionRef.normal = << 0, -1000, 0 >>
    /\ lastResolve.dot1 > 0
    /\ DragAxis(lastResolve) = "x"
    /\ lastResolve.move = [axis |-> "z", layer |-> -1, dir |-> 1]
    /\ DragMotion > 0

(***************************************************************************)
(* The layer of a gesture's move, checked under Spec                       *)
(***************************************************************************)
\* C26: the layer of a resolved move is the coordinate, on the move's own
\* rotation axis, of the cubie record the resolver read, divided by the
\* spacing and rounded: it is one of -1, 0, 1, the nearest to that quotient,
\* and times the spacing it is that coordinate, whatever store the record is of.
LayerIsCubieCoordinate ==
    lastResolve # NoResolve =>
        LET move == lastResolve.move
            coordinate == grabbedCube.position[AxisIndex(move.axis)]
        IN  /\ move.axis \in Axes
            /\ move.layer \in Layers
            /\ 2 * Abs(coordinate - move.layer * Spacing) <= Spacing
            /\ coordinate = move.layer * Spacing

LayerWitness ==
    /\ lastResolve # NoResolve
    /\ grabbedCube.position = << Spacing, 0, Spacing >>
    /\ lastResolve.face = "z"
    /\ lastResolve.move.axis = "y"
    /\ lastResolve.move.layer = 0

(***************************************************************************)
(* Classification of the grabbed face, checked under SpecResolver          *)
(***************************************************************************)
\* the axes on which the absolute normal is largest
DominantAxes(normal) ==
    {a \in Axes : \A b \in Axes : Abs(normal[AxisIndex(a)]) >= Abs(normal[AxisIndex(b)])}

\* C27: the branch taken for a contact normal with one largest absolute
\* component is the branch of that component's axis.
BranchIsDominantAxis ==
    (lastResolve # NoResolve /\ Cardinality(DominantAxes(interactionRef.normal)) = 1) =>
        lastResolve.face \in DominantAxes(interactionRef.normal)

\* C29: every move the resolver enqueues has an axis x, y or z and a direction
\* +1 or -1.
ResolvedMoveIsQuarterTurn ==
    lastResolve # NoResolve =>
        /\ lastResolve.move.axis \in Axes
        /\ lastResolve.move.dir \in Dirs

(***************************************************************************)
(* Orientation of the stickers, checked under SpecMoves                    *)
(***************************************************************************)
\* C28: every sticker faces outward: on every cubie the slot +X, +Y or +Z holds
\* a colour tag iff the cubie's coordinate on that axis is +1 grid unit, and the
\* slot -X, -Y or -Z iff it is -1 grid unit.
StickersFaceOutward ==
    \A i \in CubieIds :
        \A k \in 1 .. 3 :
            /\ cubeState[i].colors[2 * k - 1] # Null <=> cubeState[i].position[k] = Spacing
            /\ cubeState[i].colors[2 * k] # Null <=> cubeState[i].position[k] = -Spacing

StickersOutwardWitness ==
    /\ Len(committed) >= 2
    /\ Committed(1).axis # Committed(2).axis
    /\ \E i \in CubieIds :
           /\ Populated(cubeState[i]) = 3
           /\ StoreBefore(1)[i].position \notin {cubeState[i].position, InitialState[i].position}
           /\ cubeState[i].position # InitialState[i].position
           /\ {s \in Slots : cubeState[i].colors[s] # Null}
                  # {s \in Slots : InitialState[i].colors[s] # Null}

\* C30: the layer of a resolved move is read from the grabbed cubie's position
\* in the store as it is when the move is resolved, also when moves were
\* committed since the pointer went down.
LayerReadFromCurrentStore ==
    [][ gestureMoves' > gestureMoves =>
            LET move == lastResolve'.move
                cube == cubeState[interactionRef.intersectedCubieIndex]
            IN  move.layer * Spacing = cube.position[AxisIndex(move.axis)] ]_vars

(***************************************************************************)
(* One thing per tick, checked under SpecRun                               *)
(***************************************************************************)
\* C31: a tick pops one move without advancing it, or advances the move in
\* flight (and may commit it), or does nothing, never two of these: the step
\* that takes a move off the queue starts it at progress 0 and commits nothing;
\* the step that commits commits one move, takes nothing off the queue and
\* leaves the scheduler idle; so a move is popped and committed by two
\* different ticks, whatever the delta.
TickDoesOneThing ==
    [][ /\ (Len(moveQueue') < Len(moveQueue) /\ resetKey' = resetKey) =>
               /\ ~isAnimating /\ isAnimating'
               /\ moveQueue' = Tail(moveQueue)
               /\ currentMove' = Head(moveQueue)
               /\ animationProgress' = 0
               /\ committed' = committed
               /\ cubeState' = cubeState
        /\ (committed' # committed /\ resetKey' = resetKey) =>
               /\ isAnimating /\ ~isAnimating'
               /\ committed' = Append(committed, currentMove)
               /\ currentMove' = NullMove
               /\ moveQueue' = moveQueue
        /\ (isAnimating /\ animationProgress' # animationProgress) =>
               moveQueue' = moveQueue
        /\ (~isAnimating /\ moveQueue = << >>) =>
               UNCHANGED << cubeState, sceneRefs, committed >> ]_vars

OneThingWitness ==
    /\ ~isAnimating
    /\ animationProgress = ProgressUnit
    /\ Len(committed) >= 2
    /\ Len(moveQueue) >= 2
    /\ Committed(1) # moveQueue[1]
    /\ enqueued = committed \o moveQueue

====
